---- MODULE Spec2Model ----
(***************************************************************************)
(* Model of scripts/workspace_statistics.py: the batch job that walks a    *)
(* workspace store (MongoDB) and folds object-version counts and byte      *)
(* sizes into per-user, per-user-per-type, per-month and per-workspace     *)
(* totals plus a listing of selected objects, then writes four JSON files. *)
(*                                                                         *)
(* Text values the code takes apart (type strings, record identifiers,     *)
(* listing keys, month buckets) are sequences of one-character strings, so *)
(* that split, slicing, int(.., 16), str and strftime are computed.        *)
(***************************************************************************)
EXTENDS Integers, Sequences, FiniteSets, Bags, TLC

(***************************************************************************)
(* Program constants (module level of workspace_statistics.py).            *)
(***************************************************************************)
WS_META_INC == <<"is_temporary", "narrative", "narrative_nice_name">>
OBJ_META_INC == <<"methods", "job_info">>

CFG_SECTION_SOURCE == "SourceMongo"
CFG_SECTION_TARGET == "TargetMongo"
CFG_HOST == "host"
CFG_PORT == "port"
CFG_DB == "db"
CFG_USER == "user"
CFG_PWD == "pwd"
CFG_TYPES == "types"
CFG_LIST_OBJS == "list-objects"
CFG_EXCLUDE_WS == "exclude-ws"

USER_FILE == "user_data.json"
WS_FILE == "ws_data.json"
OBJECT_FILE == "ws_object_list.json"
BYMONTH_FILE == "ws_bymonth.json"

COL_WS == "workspaces"
COL_ACLS == "workspaceACLs"
COL_OBJ == "workspaceObjects"
COL_VERS == "workspaceObjVersions"

WS_OBJ_CNT == "numObj"
WS_DELETED == "del"
WS_OWNER == "owner"
WS_NAME == "name"
PUBLIC == "pub"
PRIVATE == "priv"
OBJ_CNT == "cnt"
BYTES == "byte"
DELETED == WS_DELETED
NOT_DEL == "std"
OWNER == WS_OWNER
TYPES == "types"
NAME == WS_NAME
SHARED == "shd"
SHARED_WITH == "shdwith"
META == "meta"

LIMIT == 10000
MAX_WS == -1

(***************************************************************************)
(* Bounds of the model.                                                    *)
(***************************************************************************)
\* the largest declared object count of a workspace spans MaxPages pages
MaxPages == 2
\* version numbers of a stored object run over 1 .. at most MaxVer
MaxVer == 2
\* objects saved into the store by other clients while the job runs
MaxSaves == 1

(***************************************************************************)
(* Text and date helpers.                                                  *)
(***************************************************************************)
\* the argument of a single-key mapping literal such as {k: v}
Map1(k, v) == [x \in {k} |-> v]

\* dict.update semantics: g's entries win over f's
Merge(f, g) == [x \in (DOMAIN f) \cup (DOMAIN g) |-> IF x \in DOMAIN g THEN g[x] ELSE f[x]]

Min2(a, b) == IF a < b THEN a ELSE b

DecDigit == <<"0", "1", "2", "3", "4", "5", "6", "7", "8", "9">>
HexDigit == <<"0", "1", "2", "3", "4", "5", "6", "7", "8", "9", "a", "b", "c", "d", "e", "f">>

\* str(n) for an integer n >= 0
RECURSIVE Str(_)
Str(n) == IF n < 10 THEN <<DecDigit[n + 1]>> ELSE Str(n \div 10) \o <<DecDigit[(n % 10) + 1]>>

\* a zero-padded decimal field of strftime / isoformat (%Y, %m, ...)
RECURSIVE Pad(_, _)
Pad(n, width) == IF width = 0 THEN <<>> ELSE Pad(n \div 10, width - 1) \o <<DecDigit[(n % 10) + 1]>>

HexVal(c) == (CHOOSE i \in 1..16 : HexDigit[i] = c) - 1

\* int(s, 16)
RECURSIVE int16(_)
int16(s) == IF s = <<>> THEN 0 ELSE 16 * int16(SubSeq(s, 1, Len(s) - 1)) + HexVal(s[Len(s)])

\* s.split('-')[0]: the characters before the first hyphen (all of s if none)
split0(s) == LET hyphens == {i \in 1..Len(s) : s[i] = "-"}
             IN  IF hyphens = {} THEN s
                 ELSE SubSeq(s, 1, (CHOOSE i \in hyphens : \A j \in hyphens : i <= j) - 1)

\* the proleptic Gregorian date of day number `days` (days since 1970-01-01)
CivilFromDays(days) ==
    LET z == days + 719468
        era == z \div 146097
        doe == z - era * 146097
        yoe == (doe - doe \div 1460 + doe \div 36524 - doe \div 146096) \div 365
        doy == doe - (365 * yoe + yoe \div 4 - yoe \div 100)
        mp == (5 * doy + 2) \div 153
        dd == doy - (153 * mp + 2) \div 5 + 1
        mm == IF mp < 10 THEN mp + 3 ELSE mp - 9
        yy == yoe + era * 400 + (IF mm <= 2 THEN 1 ELSE 0)
    IN  [year |-> yy, month |-> mm, day |-> dd]

\* datetime.date.fromtimestamp(t) in a zone utcoff seconds east of UTC
fromtimestamp(t, utcoff) == CivilFromDays((t + utcoff) \div 86400)

\* date.strftime('%Y%m')
strftime_Ym(date) == Pad(date.year, 4) \o Pad(date.month, 2)

\* datetime.isoformat() of a timezone-aware UTC datetime with whole seconds,
\* the datetime given as seconds since the epoch
isoformat(t) ==
    LET date == CivilFromDays(t \div 86400)
        sod == t % 86400
    IN  Pad(date.year, 4) \o <<"-">> \o Pad(date.month, 2) \o <<"-">> \o Pad(date.day, 2)
        \o <<"T">> \o Pad(sod \div 3600, 2) \o <<":">> \o Pad((sod % 3600) \div 60, 2)
        \o <<":">> \o Pad(sod % 60, 2) \o <<"+", "0", "0", ":", "0", "0">>

\* the month bucket taken from the stored save date instead
MonthOf_SaveDate(v, utcoff) == strftime_Ym(fromtimestamp(v.savedate, utcoff))

\* the month bucket of a version record: lines 322-324
MonthOf(v, utcoff) == strftime_Ym(fromtimestamp(int16(SubSeq(v._id, 1, 8)), utcoff))

\* convert_mongo_meta_to_dict: a list of {k, v} documents as a mapping,
\* a later entry with the same key replacing an earlier one
RECURSIVE convert_mongo_meta_to_dict(_)
convert_mongo_meta_to_dict(mongo_meta) ==
    IF mongo_meta = <<>> THEN <<>>
    ELSE LET m == mongo_meta[Len(mongo_meta)]
         IN  Merge(convert_mongo_meta_to_dict(SubSeq(mongo_meta, 1, Len(mongo_meta) - 1)),
                   Map1(m.k, m.v))

\* the allow-list filter applied to converted metadata (lines 260-262, 281-283)
IncMeta(metadict, inc) ==
    [k \in {inc[i] : i \in 1..Len(inc)} \cap DOMAIN metadict |-> metadict[k]]

(***************************************************************************)
(* Python values of differing type are tagged records.                     *)
(***************************************************************************)
None == [none |-> TRUE]
Text(s) == [text |-> s]
List(l) == [list |-> l]
SetOf(S) == [set |-> S]
IsNone(v) == "none" \in DOMAIN v
IsText(v) == "text" \in DOMAIN v
IsList(v) == "list" \in DOMAIN v
IsSet(v) == "set" \in DOMAIN v
\* truth value of a config value: '' and [] and None are false
Truthy(v) == \/ IsText(v) /\ v.text # <<>>
             \/ IsList(v) /\ v.list # <<>>
             \/ IsSet(v) /\ v.set # {}
Range(l) == {l[i] : i \in 1..Len(l)}

\* int(s) succeeds on a non-empty run of decimal digits
IsIntText(s) == s # <<>> /\ \A i \in 1..Len(s) : s[i] \in Range(DecDigit)
RECURSIVE int10(_)
int10(s) == IF s = <<>> THEN 0
            ELSE 10 * int10(SubSeq(s, 1, Len(s) - 1))
                 + ((CHOOSE i \in 1..10 : DecDigit[i] = s[Len(s)]) - 1)

\* dict.get(key): None when the key is absent
CfgGet(section, key) == IF key \in DOMAIN section THEN section[key] ELSE None

Exit1(msg) == [kind |-> "exit", out |-> msg]
Raise(what) == [kind |-> "raise", out |-> <<what>>]

\* process_optional_key
process_optional_key(section, key) ==
    LET v == CfgGet(section, key)
    IN  IF v = Text(<<>>) THEN None ELSE v

\* process_config_string_list, as the new value of config_section[config_name]
process_config_string_list(config_name, config_section) ==
    LET c == config_section[config_name]
    IN  IF Truthy(c)
        THEN IF ~IsList(c) THEN SetOf({c.text}) ELSE SetOf(Range(c.list))
        ELSE None

\* line 177 without the host
RequiredKeys_NoHost == <<CFG_PORT, CFG_DB>>

\* the keys every section must give a value for, in the order checked, line 177
RequiredKeys == <<CFG_HOST, CFG_PORT, CFG_DB>>

\* lines 173-188: the first complaint about section sec, or <<>>
SectionProblem(co, sec, cfgfile) ==
    IF sec \notin DOMAIN co
    THEN <<"Missing config section ", sec, " from file ", cfgfile>>
    ELSE LET bad == {i \in 1..Len(RequiredKeys) : LET v == CfgGet(co[sec], RequiredKeys[i])
                                                  IN  v = Text(<<>>) \/ IsNone(v)}
         IN  IF bad # {}
             THEN LET i == CHOOSE j \in bad : \A k \in bad : j <= k
                  IN  <<"Missing config value ", sec, ".", RequiredKeys[i],
                        " from file ", cfgfile>>
             ELSE IF ~IsIntText(co[sec][CFG_PORT].text)
                  THEN <<"Port ", co[sec][CFG_PORT].text, " is not a valid port number at ",
                         sec, ".", CFG_PORT>>
                  ELSE <<>>

\* lines 189-195
UserPwdProblem(co, sec, cfgfile) ==
    IF ~IsNone(process_optional_key(co[sec], CFG_USER)) /\ IsNone(process_optional_key(co[sec], CFG_PWD))
    THEN <<"If ", CFG_USER, " specified, ", CFG_PWD, " must be specified in section ", sec,
           " from file ", cfgfile>>
    ELSE <<>>

\* lines 200-211: the processed exclusion value, or the complaint
ExcludeOf(section) ==
    LET exclude == section[CFG_EXCLUDE_WS]
        l == IF IsList(exclude) THEN exclude.list ELSE <<exclude.text>>
        bad == {i \in 1..Len(l) : ~IsIntText(l[i])}
    IN  IF ~Truthy(exclude) THEN [ok |-> TRUE, val |-> exclude]
        ELSE IF bad # {}
             THEN [ok |-> FALSE,
                   out |-> <<"Workspace id ", l[CHOOSE j \in bad : \A k \in bad : j <= k],
                             " must be an integer">>]
             ELSE [ok |-> TRUE, val |-> SetOf({int10(l[i]) : i \in 1..Len(l)})]

FirstProblem(ps) == IF \E i \in 1..Len(ps) : ps[i] # <<>>
                    THEN ps[CHOOSE i \in 1..Len(ps) : ps[i] # <<>> /\ \A j \in 1..(i - 1) : ps[j] = <<>>]
                    ELSE <<>>

\* get_config(cfgfile) on the file system entry f = [isfile, access, co], co the
\* parsed sections. The result is the source section as main uses it.
get_config(cfgfile, f) ==
    LET s == CFG_SECTION_SOURCE
        t == CFG_SECTION_TARGET
        co == f.co
    IN  IF ~f.isfile /\ ~f.access THEN Exit1(<<"Cannot read file ", cfgfile>>)
        ELSE IF ~(f.isfile /\ f.access) THEN Raise("IOError")
        ELSE IF SectionProblem(co, s, cfgfile) # <<>> THEN Exit1(SectionProblem(co, s, cfgfile))
        ELSE IF SectionProblem(co, t, cfgfile) # <<>> THEN Exit1(SectionProblem(co, t, cfgfile))
        ELSE IF FirstProblem(<<UserPwdProblem(co, s, cfgfile), UserPwdProblem(co, t, cfgfile)>>) # <<>>
             THEN Exit1(FirstProblem(<<UserPwdProblem(co, s, cfgfile), UserPwdProblem(co, t, cfgfile)>>))
        ELSE IF {CFG_TYPES, CFG_LIST_OBJS, CFG_EXCLUDE_WS} \ DOMAIN co[s] # {}
             THEN Raise("KeyError")
        ELSE IF ~ExcludeOf(co[s]).ok THEN Exit1(ExcludeOf(co[s]).out)
        ELSE [kind |-> "ok",
              out |-> <<>>,
              src |-> Merge(co[s],
                        [k \in {CFG_PORT, CFG_USER, CFG_PWD, CFG_TYPES, CFG_LIST_OBJS, CFG_EXCLUDE_WS} |->
                            CASE k = CFG_PORT -> [int |-> int10(co[s][CFG_PORT].text)]
                              [] k = CFG_USER -> process_optional_key(co[s], CFG_USER)
                              [] k = CFG_PWD -> process_optional_key(co[s], CFG_PWD)
                              [] k = CFG_TYPES -> process_config_string_list(CFG_TYPES, co[s])
                              [] k = CFG_LIST_OBJS -> process_config_string_list(CFG_LIST_OBJS, co[s])
                              [] k = CFG_EXCLUDE_WS -> ExcludeOf(co[s]).val])]

(***************************************************************************)
(* The inputs of a run: the store's documents, the config file, the        *)
(* command line and the process's time zone.                               *)
(***************************************************************************)
T_Genome == <<"K", "B", "a", "s", "e", "G", "e", "n", "o", "m", "e", "s", "-", "G", "e", "n", "o", "m", "e">>
T_Narrative == <<"N", "a", "r", "-", "N", "-", "4">>
T_Plain == <<"P", "l", "a", "i", "n">>
P_Genomes == <<"K", "B", "a", "s", "e", "G", "e", "n", "o", "m", "e", "s">>
P_Star == <<"*">>

WsIds == {1, 2}
\* the object identifiers the stores hold: the first, and the two around the
\* boundary of the last page
Boundary == (MaxPages - 1) * LIMIT
ObjIdMenu == {1, Boundary, Boundary + 1}

\* the attributes of a stored version, by profile. The leading 8 hex digits
\* of _id are 2014-04-15T12:00Z for 1 and 2 and 2014-05-01T00:30Z for 3;
\* savedate is 2014-04-15T12:00:00Z, 2014-06-10T08:00:00Z, 2014-04-15T12:00:00Z.
Profile(p) ==
    CASE p = 1 -> [size |-> 100, type |-> T_Genome, savedby |-> "alice", savedate |-> 1397563200,
                   prefix |-> <<"5", "3", "4", "d", "1", "f", "4", "0">>]
      [] p = 2 -> [size |-> 7, type |-> T_Narrative, savedby |-> "bob", savedate |-> 1402387200,
                   prefix |-> <<"5", "3", "4", "d", "1", "f", "4", "0">>]
      [] p = 3 -> [size |-> 30, type |-> T_Plain, savedby |-> "carol", savedate |-> 1397563200,
                   prefix |-> <<"5", "3", "6", "1", "9", "5", "8", "8">>]

\* a 24-digit record identifier: the timestamp digits, then digits unique to
\* the document
ObjectId(prefix, ws, id, ver) ==
    LET tail == Str(ws) \o <<"a">> \o Str(id) \o <<"b">> \o Str(ver)
    IN  prefix \o [i \in 1..(16 - Len(tail)) |-> "0"] \o tail

\* a document of workspaceObjVersions; the meta field is optional
VersionDoc(ws, id, ver, p) ==
    LET base == [ws |-> ws, id |-> id, ver |-> ver, size |-> Profile(p).size,
                 type |-> Profile(p).type, savedby |-> Profile(p).savedby,
                 savedate |-> Profile(p).savedate,
                 _id |-> ObjectId(Profile(p).prefix, ws, id, ver)]
    IN  IF p = 2
        THEN Merge(base, Map1("meta", <<[k |-> "methods", v |-> "m1"], [k |-> "other", v |-> "x"]>>))
        ELSE base

\* a document of workspaceObjects
ObjectDoc(ws, id, del, numver) ==
    [ws |-> ws, id |-> id, del |-> del, name |-> <<"o">> \o Str(id), numver |-> numver]

\* the kinds of stored object: deletion flag, version count and the profile
\* of each version
ObjKinds == {1, 2, 3}
KindDel(k) == k = 2
KindNumver(k) == IF k = 1 THEN 1 ELSE MaxVer
KindProfile(k, ver) == CASE k = 1 -> 1
                         [] k = 2 -> (ver % 3) + 1
                         [] k = 3 -> ((ver + 1) % 3) + 1

ObjectsOf(ws, kinds) == {ObjectDoc(ws, id, KindDel(kinds[id]), KindNumver(kinds[id])) : id \in DOMAIN kinds}
VersionsOf(ws, kinds) ==
    UNION {{VersionDoc(ws, id, ver, KindProfile(kinds[id], ver)) : ver \in 1..KindNumver(kinds[id])} :
           id \in DOMAIN kinds}

\* a document of workspaces; the meta field is optional
WorkspaceDoc(ws, owner, numObj) ==
    LET base == [ws |-> ws, numObj |-> numObj, owner |-> owner, del |-> FALSE,
                 name |-> <<"w">> \o Str(ws)]
    IN  IF ws = 1
        THEN Merge(base, Map1("meta", <<[k |-> "narrative", v |-> "3"], [k |-> "zzz", v |-> "y"],
                                        [k |-> "is_temporary", v |-> "false"]>>))
        ELSE base

\* the access-control documents of workspace 1: none, or world-readable and
\* shared with bob
AclMenu == {{},
            {[id |-> 1, user |-> "alice", perm |-> 40], [id |-> 1, user |-> "*", perm |-> 10],
             [id |-> 1, user |-> "bob", perm |-> 20]}}
Acl2 == {[id |-> 2, user |-> "carol", perm |-> 10]}

\* the objects of workspace 1 when it has allotted n1 identifiers: every menu
\* identifier up to n1, the first of kind kind1, the others of kind 3 and 2
KindsUpTo(n1, kind1) ==
    [id \in {i \in ObjIdMenu : i <= n1} |->
        IF id = 1 THEN kind1 ELSE IF id = Boundary THEN 3 ELSE 2]

\* the store a run may start on: workspace 1 holds the objects of `kinds`
\* (identifier -> kind) and has allotted n1 identifiers, workspace 2 holds one
\* object. Documents are never removed; identifiers are allotted in sequence.
Store(n1, owner2, acl1, kinds) ==
    [workspaces |-> {WorkspaceDoc(1, "alice", n1), WorkspaceDoc(2, owner2, 1)},
     workspaceACLs |-> acl1 \cup Acl2,
     workspaceObjects |-> ObjectsOf(1, kinds) \cup ObjectsOf(2, Map1(1, 1)),
     workspaceObjVersions |-> VersionsOf(1, kinds) \cup VersionsOf(2, Map1(1, 1))]

OneObjectStore ==
    [workspaces |-> {WorkspaceDoc(1, "alice", 1)},
     workspaceACLs |-> {[id |-> 1, user |-> "*", perm |-> 10]},
     workspaceObjects |-> ObjectsOf(1, Map1(1, 1)),
     workspaceObjVersions |-> VersionsOf(1, Map1(1, 1))]

\* the config files: a well-formed one for each choice of the three optional
\* source keys, and the malformed ones
GoodSections(types, listobjs, exclude) ==
    [s \in {CFG_SECTION_SOURCE, CFG_SECTION_TARGET} |->
        IF s = CFG_SECTION_SOURCE
        THEN [k \in {CFG_HOST, CFG_PORT, CFG_DB, CFG_TYPES, CFG_LIST_OBJS, CFG_EXCLUDE_WS} |->
                CASE k = CFG_HOST -> Text(<<"h">>)
                  [] k = CFG_PORT -> Text(<<"2", "7", "0", "1", "7">>)
                  [] k = CFG_DB -> Text(<<"w">>)
                  [] k = CFG_TYPES -> types
                  [] k = CFG_LIST_OBJS -> listobjs
                  [] k = CFG_EXCLUDE_WS -> exclude]
        ELSE [k \in {CFG_HOST, CFG_PORT, CFG_DB} |->
                CASE k = CFG_HOST -> Text(<<"t">>)
                  [] k = CFG_PORT -> Text(<<"2", "7", "0", "1", "8">>)
                  [] k = CFG_DB -> Text(<<"m">>)]]

File(co) == [isfile |-> TRUE, access |-> TRUE, co |-> co]
TypesMenu == {Text(<<>>), Text(P_Genomes), List(<<P_Star>>)}
ListMenu == {List(<<P_Genomes, T_Plain>>)}
ExcludeMenu == {List(<<>>), Text(<<"1">>)}
GoodFiles == {File(GoodSections(t, l, e)) : t \in TypesMenu, l \in ListMenu, e \in ExcludeMenu}

DefaultSections == GoodSections(Text(P_Genomes), List(<<P_Genomes, T_Plain>>), List(<<>>))
\* sections co with co[sec][key] set to v, or with the key removed
WithKey(co, sec, key, v) == [co EXCEPT ![sec] = Merge(@, Map1(key, v))]
WithoutKey(co, sec, key) == [co EXCEPT ![sec] = [k \in DOMAIN @ \ {key} |-> @[k]]]
WithoutSection(co, sec) == [s \in DOMAIN co \ {sec} |-> co[s]]
EdgeFiles ==
    {[isfile |-> FALSE, access |-> FALSE, co |-> DefaultSections],
     [isfile |-> FALSE, access |-> TRUE, co |-> DefaultSections],
     File(WithoutSection(DefaultSections, CFG_SECTION_SOURCE)),
     File(WithoutSection(DefaultSections, CFG_SECTION_TARGET)),
     File(WithoutKey(DefaultSections, CFG_SECTION_SOURCE, CFG_HOST)),
     File(WithKey(DefaultSections, CFG_SECTION_SOURCE, CFG_HOST, Text(<<>>))),
     File(WithoutKey(WithoutKey(DefaultSections, CFG_SECTION_SOURCE, CFG_HOST), CFG_SECTION_SOURCE, CFG_PORT)),
     File(WithoutKey(DefaultSections, CFG_SECTION_TARGET, CFG_HOST)),
     File(WithoutKey(DefaultSections, CFG_SECTION_SOURCE, CFG_DB)),
     File(WithKey(DefaultSections, CFG_SECTION_SOURCE, CFG_PORT, Text(<<"x", "1">>))),
     File(WithKey(DefaultSections, CFG_SECTION_SOURCE, CFG_USER, Text(<<"u">>))),
     File(WithoutKey(DefaultSections, CFG_SECTION_SOURCE, CFG_TYPES)),
     File(WithKey(DefaultSections, CFG_SECTION_SOURCE, CFG_LIST_OBJS, Text(<<>>))),
     File(WithKey(DefaultSections, CFG_SECTION_SOURCE, CFG_EXCLUDE_WS, Text(<<>>))),
     File(WithKey(DefaultSections, CFG_SECTION_SOURCE, CFG_EXCLUDE_WS, List(<<<<"2">>, <<"x">>>>))),
     File(WithKey(WithKey(DefaultSections, CFG_SECTION_SOURCE, CFG_USER, Text(<<"u">>)),
                  CFG_SECTION_SOURCE, CFG_PWD, Text(<<"p">>)))}

\* the process's zone, in seconds east of UTC: UTC, and US Pacific daylight time
UtcOffsets == {0, 0 - 25200}

(***************************************************************************)
(* State.                                                                  *)
(***************************************************************************)
VARIABLES
    pc,          \* where main is: a label, "done" or "exited"
    args,        \* the parsed command line: config, output, only_latest_ver
    env,         \* the config file, the state of the output directory, the zone
    db,          \* the store: collection name -> documents
    saves,       \* objects saved by other clients so far
    out,         \* the message printed on termination, if any
    exitcode,    \* the process's exit status once it has ended, else -1
    sourcecfg,   \* get_config's source section
    srcmongo,    \* whether the MongoClient has been constructed
    workspaces,  \* the workspace index: ws id -> record
    d,           \* user -> pub -> del -> {cnt, byte}
    types,       \* user -> type -> pub -> del -> {cnt, byte}
    bymonth,     \* month -> pub -> del -> {cnt, byte}
    objlist,     \* obj_kbid -> listing entry
    todo,        \* the workspaces the loop of process_objects has yet to visit
    ws,          \* the workspace being processed
    wsobjcount,  \* its declared object count
    lim,         \* the upper bound of the current page
    id2obj,      \* the current page's object lookup
    wsowner,     \* process_object_versions' locals
    wspub,
    res,         \* the version documents the cursor has yet to yield
    vers,        \* the versions counted in the current page
    files,       \* the output files written, in order
    visited,     \* history: ws id -> the object count the loop read for it
    pages,       \* history: the pages queried, as <<ws, lo, hi>>
    returned,    \* history: the objects the page queries returned, as <<ws, id>>
    fetched,     \* history: the versions the page queries returned, as <<ws, id, ver>>
    counted,     \* history: the bag of the versions accumulated, as <<ws, id, ver>>
    passed       \* history: the versions given to update_object_list

vars == <<pc, args, env, db, saves, out, exitcode, sourcecfg, srcmongo, workspaces, d, types,
          bymonth, objlist, todo, ws, wsobjcount, lim, id2obj, wsowner, wspub, res, vers,
          files, visited, pages, returned, fetched, counted, passed>>

\* the variables of the process's memory, as they are before the aggregation
\* starts and after the process has ended
NoMemory ==
    /\ sourcecfg = <<>> /\ workspaces = <<>> /\ d = <<>> /\ types = <<>> /\ bymonth = <<>>
    /\ objlist = <<>> /\ todo = {} /\ ws = 0 /\ wsobjcount = 0 /\ lim = 0 /\ id2obj = <<>>
    /\ wsowner = "" /\ wspub = "" /\ res = {} /\ vers = 0
    /\ visited = <<>> /\ pages = {} /\ returned = {} /\ fetched = {}
    /\ counted = EmptyBag /\ passed = {}

Init ==
    /\ pc = "start"
    /\ \/ \* the inputs of the aggregation: store, version policy, config
          /\ \E only_latest_ver \in BOOLEAN :
                args = [config |-> "usage.cfg", output |-> None, only_latest_ver |-> only_latest_ver]
          /\ \E cfg \in GoodFiles : env = [cfg |-> cfg, outdir |-> "ok", utcoff |-> 0 - 25200]
          /\ \E n1 \in {0} \cup ObjIdMenu, kind1 \in ObjKinds, owner2 \in {"alice", "bob"}, acl1 \in AclMenu :
                db = Store(n1, owner2, acl1, KindsUpTo(n1, kind1))
       \/ \* the environment: output directory, zone
          /\ \E only_latest_ver \in BOOLEAN, output \in {None, Text(<<"o">>)} :
                args = [config |-> "usage.cfg", output |-> output, only_latest_ver |-> only_latest_ver]
          /\ \E utcoff \in UtcOffsets :
                env = [cfg |-> File(DefaultSections), outdir |-> "ok", utcoff |-> utcoff]
          /\ \E n1 \in {0} \cup ObjIdMenu, kind1 \in ObjKinds :
                db = Store(n1, "alice", CHOOSE acl \in AclMenu : acl # {}, KindsUpTo(n1, kind1))
       \/ \* a store of one public workspace with one object of one version
          /\ \E only_latest_ver \in BOOLEAN :
                args = [config |-> "usage.cfg", output |-> None, only_latest_ver |-> only_latest_ver]
          /\ env = [cfg |-> File(DefaultSections), outdir |-> "ok", utcoff |-> 0]
          /\ db = OneObjectStore
       \/ \* the setup: config file and output directory, well-formed or not
          /\ args \in {[config |-> "usage.cfg", output |-> output, only_latest_ver |-> FALSE] :
                         output \in {None, Text(<<"o">>)}}
          /\ \E cfg \in EdgeFiles, outdir \in {"ok", "mkdir_fails", "not_writable"} :
                env = [cfg |-> cfg, outdir |-> outdir, utcoff |-> 0]
          /\ db = Store(1, "bob", {}, Map1(1, 3))
    /\ saves = 0
    /\ out = <<>>
    /\ exitcode = -1
    /\ srcmongo = FALSE
    /\ files = <<>>
    /\ NoMemory

\* the process ends: its memory is gone, what it printed and wrote stays
End(code, msg) ==
    /\ pc' = "exited"
    /\ exitcode' = code
    /\ out' = msg
    /\ sourcecfg' = <<>> /\ workspaces' = <<>> /\ d' = <<>> /\ types' = <<>> /\ bymonth' = <<>>
    /\ objlist' = <<>> /\ todo' = {} /\ ws' = 0 /\ wsobjcount' = 0 /\ lim' = 0 /\ id2obj' = <<>>
    /\ wsowner' = "" /\ wspub' = "" /\ res' = {} /\ vers' = 0
    /\ visited' = <<>> /\ pages' = {} /\ returned' = {} /\ fetched' = {}
    /\ counted' = EmptyBag /\ passed' = {}
    /\ UNCHANGED <<args, env, db, saves, srcmongo, files>>

\* an exception nothing catches: a traceback, exit status 1
Uncaught(what) == End(1, <<"Traceback", what>>)

memory == <<sourcecfg, workspaces, d, types, bymonth, objlist, todo, ws, wsobjcount, lim, id2obj,
            wsowner, wspub, res, vers, visited, pages, returned, fetched, counted, passed>>

\* make_and_check_output_dir(outdir), line 421
CheckOutputDir ==
    /\ pc = "start"
    /\ IF Truthy(args.output) /\ env.outdir = "mkdir_fails"
       THEN End(1, <<"Couldn't create or read output directory ", args.output.text>>)
       ELSE IF Truthy(args.output) /\ env.outdir = "not_writable"
            THEN End(1, <<"Cannot write to directory ", args.output.text>>)
            ELSE /\ pc' = "config"
                 /\ UNCHANGED <<args, env, db, saves, out, exitcode, srcmongo, files, memory>>

\* sourcecfg, targetcfg = get_config(args.config), line 422
GetConfig ==
    /\ pc = "config"
    /\ LET r == get_config(args.config, env.cfg)
       IN  CASE r.kind = "exit" -> End(1, r.out)
             [] r.kind = "raise" -> Uncaught(r.out[1])
             [] OTHER -> /\ pc' = "connect"
                         /\ sourcecfg' = r.src
                         /\ UNCHANGED <<args, env, db, saves, out, exitcode, srcmongo, workspaces,
                                        d, types, bymonth, objlist, todo, ws, wsobjcount, lim,
                                        id2obj, wsowner, wspub, res, vers, files, visited, pages, returned, fetched, counted, passed>>

\* lines 424-428: the client is constructed and, if a user is configured,
\* authenticated
Connect ==
    /\ pc = "connect"
    /\ pc' = "workspaces"
    /\ srcmongo' = TRUE
    /\ UNCHANGED <<args, env, db, saves, out, exitcode, files, memory>>

\* a store operation fails (connection lost, query refused): pymongo raises
\* and nothing catches it
StoreError ==
    /\ pc \in {"connect", "workspaces", "objquery", "versquery", "versloop"}
    /\ Uncaught("PyMongoError")

\* another client saves a new object, with its first version, into the
\* workspace whose pages are being read, before the page's object query or
\* between it and the version query. A save into another workspace is a save
\* before that workspace's first page, or one the job never looks at; a save
\* while the cursor of line 309 is read either reaches the cursor, as a save
\* before the version query does, or does not, as a save before the next
\* page's object query or one the job never looks at.
SaveObject ==
    /\ pc \in {"objquery", "versquery"}
    /\ saves < MaxSaves
    /\ \E wd \in {x \in db[COL_WS] : x.ws = ws} :
          LET id == wd.numObj + 1
          IN  db' = [db EXCEPT ![COL_WS] = (@ \ {wd}) \cup {[wd EXCEPT !.numObj = id]},
                               ![COL_OBJ] = @ \cup {ObjectDoc(wd.ws, id, FALSE, 1)},
                               ![COL_VERS] = @ \cup {VersionDoc(wd.ws, id, 1, 1)}]
    /\ saves' = saves + 1
    /\ UNCHANGED <<pc, args, env, out, exitcode, srcmongo, files, memory>>

(***************************************************************************)
(* process_workspaces                                                      *)
(***************************************************************************)
\* lines 244-262 for one document of the workspaces collection
IndexEntry(wsdoc, acls) ==
    LET mine == {a \in acls : a.id = wsdoc.ws}
        shared == {a \in mine : a.user # wsdoc.owner /\ a.user # "*"}
        users == [u \in {a.user : a \in shared} |-> (CHOOSE a \in shared : a.user = u).perm]
        pub == IF \E a \in mine : a.user = "*" THEN PUBLIC ELSE PRIVATE
        base == [f \in {SHARED, SHARED_WITH, PUBLIC, WS_OBJ_CNT, OWNER, NAME} |->
                    CASE f = SHARED -> Cardinality(DOMAIN users)
                      [] f = SHARED_WITH -> users
                      [] f = PUBLIC -> pub
                      [] f = WS_OBJ_CNT -> wsdoc.numObj
                      [] f = OWNER -> wsdoc.owner
                      [] f = NAME -> wsdoc.name]
        inc == IF "meta" \in DOMAIN wsdoc
               THEN IncMeta(convert_mongo_meta_to_dict(wsdoc.meta), WS_META_INC)
               ELSE <<>>
    IN  IF DOMAIN inc # {} THEN Merge(base, Map1(META, inc)) ELSE base

process_workspaces(store) ==
    [w \in {wd.ws : wd \in store[COL_WS]} |->
        IndexEntry(CHOOSE wd \in store[COL_WS] : wd.ws = w, store[COL_ACLS])]

\* ws = process_workspaces(srcdb), line 430; process_objects' accumulators
\* start empty and its loop starts over the index, lines 339-350
ProcessWorkspaces ==
    /\ pc = "workspaces"
    /\ workspaces' = process_workspaces(db)
    /\ todo' = DOMAIN workspaces'
    /\ pc' = "wsloop"
    /\ UNCHANGED <<args, env, db, saves, out, exitcode, sourcecfg, srcmongo, d, types, bymonth,
                   objlist, ws, wsobjcount, lim, id2obj, wsowner, wspub, res, vers, files,
                   visited, pages, returned, fetched, counted, passed>>

(***************************************************************************)
(* process_objects and process_object_versions                             *)
(***************************************************************************)
\* reading m[k] of a defaultdict of mappings
Get(m, k) == IF k \in DOMAIN m THEN m[k] ELSE <<>>
\* reading m[k] of a defaultdict(int)
GetInt(m, k) == IF k \in DOMAIN m THEN m[k] ELSE 0
Put(m, k, x) == Merge(m, Map1(k, x))

\* leaf[OBJ_CNT] += 1; leaf[BYTES] += size
AddTo(leaf, size) ==
    Merge(leaf, [k \in {OBJ_CNT, BYTES} |->
                    IF k = OBJ_CNT THEN GetInt(leaf, OBJ_CNT) + 1 ELSE GetInt(leaf, BYTES) + size])
\* m[a][b][OBJ_CNT] += 1; m[a][b][BYTES] += size, and so on
Add1(m, a, size) == Put(m, a, AddTo(Get(m, a), size))
Add2(m, a, b, size) == Put(m, a, Add1(Get(m, a), b, size))
Add3(m, a, b, c, size) == Put(m, a, Add2(Get(m, a), b, c, size))
Add4(m, a, b, c, e, size) == Put(m, a, Add3(Get(m, a), b, c, e, size))

\* the query range with $gte for $gt: lo <= id <= hi
InRange_Closed(id, lo, hi) == id >= lo /\ id <= hi

\* the query range of a page, line 366 and lines 304-305: lo < id <= hi
InRange(id, lo, hi) == id > lo /\ id <= hi

\* line 357 never skipping
InExclude_Never(w, exclude_ws) == FALSE

\* ws in exclude_ws, line 357, for a set or a list
InExclude(w, exclude_ws) ==
    IF IsSet(exclude_ws) THEN w \in exclude_ws.set ELSE w \in Range(exclude_ws.list)

\* the unique key of a version document
VKey(v) == <<v.ws, v.id, v.ver>>

\* line 313 skipping only the versions above the recorded count
SkipNotLatest_Above(only_latest_ver, v, o) == only_latest_ver /\ v.ver > o.numver

\* line 313
SkipNotLatest(only_latest_ver, v, o) == only_latest_ver /\ v.ver # o.numver

\* line 316 with the two outcomes exchanged
DeletedKey_Swapped(o) == IF o.del THEN NOT_DEL ELSE DELETED

\* line 316
DeletedKey(o) == IF o.del THEN DELETED ELSE NOT_DEL

\* the per-workspace totals kept under the metadata key
WsTotalsKey_Meta(deleted) == META

\* the key of the per-workspace totals in the index record, lines 319-320
WsTotalsKey(deleted) == deleted

\* line 327 without the wildcard
TypeIncluded_NoWildcard(t, incl_types) == t \in incl_types

\* line 327
TypeIncluded(t, incl_types) == t \in incl_types \/ P_Star \in incl_types

\* line 267
obj_kbid(version) == <<"w", "s", ".">> \o Str(version.ws) \o <<".", "o", "b", "j", ".">> \o Str(version.id)

\* lines 268-269 absent: the last version processed replaces the entry
KeepsEntry_Never(ol, kbid, version) == FALSE

\* lines 268-269: the entry in the listing stays
KeepsEntry(ol, kbid, version) == kbid \in DOMAIN ol /\ ol[kbid].ver > version.ver

update_object_list(ol, obj, version) ==
    LET kbid == obj_kbid(version)
        entry == [del |-> obj.del, name |-> obj.name, savedby |-> version.savedby,
                  ver |-> version.ver, type |-> version.type,
                  savedate |-> isoformat(version.savedate)]
    IN  IF KeepsEntry(ol, kbid, version) THEN ol
        ELSE Put(ol, kbid,
                 IF "meta" \in DOMAIN version
                 THEN Merge(entry, Map1(META, IncMeta(convert_mongo_meta_to_dict(version.meta),
                                                      OBJ_META_INC)))
                 ELSE entry)

\* xrange(LIMIT, wsobjcount, LIMIT) yields l: the last page is lost
InXrange_Short(l, objcount) == l < objcount

\* xrange(LIMIT, wsobjcount + LIMIT, LIMIT) yields l, line 360
InXrange(l, objcount) == l < objcount + LIMIT

\* the end of a page, lines 332 and 360: the next page of the workspace, or
\* the next workspace
EndPage ==
    /\ lim' = lim + LIMIT
    /\ pc' = IF InXrange(lim + LIMIT, wsobjcount) THEN "objquery" ELSE "wsloop"
    /\ id2obj' = <<>>
    /\ res' = {}
    /\ vers' = 0

\* for ws in workspaces, lines 350-360: the next workspace, in any order
NextWorkspace ==
    /\ pc = "wsloop"
    /\ \E w \in todo :
        LET exclude_ws == sourcecfg[CFG_EXCLUDE_WS]
        IN  IF IsText(exclude_ws) THEN Uncaught("TypeError")
            ELSE /\ todo' = todo \ {w}
                 /\ ws' = w
                 /\ wsobjcount' = workspaces[w][WS_OBJ_CNT]
                 /\ lim' = LIMIT
                 /\ pc' = IF ~InExclude(w, exclude_ws) /\ InXrange(LIMIT, workspaces[w][WS_OBJ_CNT])
                          THEN "objquery" ELSE "wsloop"
                 /\ visited' = Put(visited, w, workspaces[w][WS_OBJ_CNT])
                 /\ UNCHANGED <<args, env, db, saves, out, exitcode, sourcecfg, srcmongo,
                                workspaces, d, types, bymonth, objlist, id2obj, wsowner, wspub,
                                res, vers, files, pages, returned, fetched, counted, passed>>

\* lines 366-302: the page's objects are fetched and indexed by id; with none,
\* the page is over
ObjQuery ==
    /\ pc = "objquery"
    /\ LET objs == {o \in db[COL_OBJ] : o.ws = ws /\ InRange(o.id, lim - LIMIT, lim)}
       IN  IF objs = {}
           THEN EndPage /\ UNCHANGED <<wsowner, wspub>>
           ELSE /\ id2obj' = [i \in {o.id : o \in objs} |-> CHOOSE o \in objs : o.id = i]
                /\ wsowner' = workspaces[ws][OWNER]
                /\ wspub' = workspaces[ws][PUBLIC]
                /\ pc' = "versquery"
                /\ UNCHANGED <<lim, res, vers>>
    /\ pages' = pages \cup {<<ws, lim - LIMIT, lim>>}
    /\ returned' = returned \cup {<<o.ws, o.id>> : o \in {x \in db[COL_OBJ] : x.ws = ws /\ InRange(x.id, lim - LIMIT, lim)}}
    /\ UNCHANGED <<args, env, db, saves, out, exitcode, sourcecfg, srcmongo, workspaces, d, types,
                   bymonth, objlist, todo, ws, wsobjcount, files, visited, fetched, counted, passed>>

\* lines 304-308: the page's versions are fetched
VersQuery ==
    /\ pc = "versquery"
    /\ res' = {v \in db[COL_VERS] : v.ws = ws /\ InRange(v.id, lim - LIMIT, lim)}
    /\ vers' = 0
    /\ pc' = "versloop"
    /\ fetched' = fetched \cup {VKey(v) : v \in res'}
    /\ UNCHANGED <<args, env, db, saves, out, exitcode, sourcecfg, srcmongo, workspaces, d, types,
                   bymonth, objlist, todo, ws, wsobjcount, lim, id2obj, wsowner, wspub, files,
                   visited, pages, returned, counted, passed>>

\* one turn of the loop of lines 309-331, on whichever version the cursor
\* yields next
ProcessVersion ==
    /\ pc = "versloop"
    /\ \E v \in res :
        IF v.id \notin DOMAIN id2obj \/ SkipNotLatest(args.only_latest_ver, v, id2obj[v.id])
        THEN /\ res' = res \ {v}
             /\ UNCHANGED <<pc, args, env, db, saves, out, exitcode, sourcecfg, srcmongo,
                            workspaces, d, types, bymonth, objlist, todo, ws, wsobjcount, lim,
                            id2obj, wsowner, wspub, vers, files, visited, pages, returned, fetched, counted, passed>>
        ELSE IF IsNone(sourcecfg[CFG_TYPES]) \/ IsNone(sourcecfg[CFG_LIST_OBJS])
        THEN Uncaught("TypeError")
        ELSE LET o == id2obj[v.id]
                 deleted == DeletedKey(o)
                 t == split0(v.type)
                 month == MonthOf(v, env.utcoff)
             IN  /\ res' = res \ {v}
                 /\ vers' = vers + 1
                 /\ d' = Add3(d, wsowner, wspub, deleted, v.size)
                 /\ workspaces' = Put(workspaces, ws,
                                      Add1(workspaces[ws], WsTotalsKey(deleted), v.size))
                 /\ bymonth' = Add3(bymonth, month, wspub, deleted, v.size)
                 /\ types' = IF TypeIncluded(t, sourcecfg[CFG_TYPES].set)
                             THEN Add4(types, wsowner, t, wspub, deleted, v.size)
                             ELSE types
                 /\ objlist' = IF t \in sourcecfg[CFG_LIST_OBJS].set
                               THEN update_object_list(objlist, o, v)
                               ELSE objlist
                 /\ counted' = counted (+) SetToBag({VKey(v)})
                 /\ passed' = IF t \in sourcecfg[CFG_LIST_OBJS].set THEN passed \cup {VKey(v)} ELSE passed
                 /\ UNCHANGED <<pc, args, env, db, saves, out, exitcode, sourcecfg, srcmongo,
                                todo, ws, wsobjcount, lim, id2obj, wsowner, wspub, files,
                                visited, pages, returned, fetched>>

\* the cursor is exhausted: return vers, lines 332 and 372-377
ReturnVers ==
    /\ pc = "versloop"
    /\ res = {}
    /\ EndPage
    /\ UNCHANGED <<args, env, db, saves, out, exitcode, sourcecfg, srcmongo, workspaces, d, types,
                   bymonth, objlist, todo, ws, wsobjcount, wsowner, wspub, files, visited, pages, returned, fetched, counted, passed>>

\* the loop over the workspaces is over: process_objects returns, line 378
ReturnObjects ==
    /\ pc = "wsloop"
    /\ todo = {}
    /\ pc' = "strip"
    /\ UNCHANGED <<args, env, db, saves, out, exitcode, srcmongo, files, memory>>

(***************************************************************************)
(* main, after the aggregation                                             *)
(***************************************************************************)
\* lines 437-440: the object counts leave the index, and each user's type
\* totals go under the user's totals
StripAndFold ==
    /\ pc = "strip"
    /\ workspaces' = [w \in DOMAIN workspaces |->
                        [f \in DOMAIN workspaces[w] \ {WS_OBJ_CNT} |-> workspaces[w][f]]]
    /\ d' = [u \in DOMAIN d |-> Put(d[u], TYPES, Get(types, u))]
    /\ types' = [u \in DOMAIN types \cup DOMAIN d |-> Get(types, u)]
    /\ IF Truthy(args.output)
       THEN pc' = "write" /\ UNCHANGED exitcode
       ELSE pc' = "done" /\ exitcode' = 0
    /\ UNCHANGED <<args, env, db, saves, out, sourcecfg, srcmongo, bymonth, objlist, todo, ws,
                   wsobjcount, lim, id2obj, wsowner, wspub, res, vers, files, visited, pages, returned, fetched, counted, passed>>

OutputNames == <<USER_FILE, WS_FILE, OBJECT_FILE, BYMONTH_FILE>>

\* lines 442-455: the next of the four files is written
WriteFile ==
    /\ pc = "write"
    /\ LET n == Len(files) + 1
           content == CASE n = 1 -> d
                        [] n = 2 -> workspaces
                        [] n = 3 -> objlist
                        [] n = 4 -> [data |-> bymonth,
                                     meta |-> [comments |-> "This data comes from workspace. Dates are calculated from the Mongo ID",
                                               author |-> "Gavin Price, Shane Canon",
                                               description |-> "Summary of amount of data stored in workspace by month"]]
       IN  /\ files' = Append(files, [name |-> OutputNames[n], content |-> content])
           /\ IF n = Len(OutputNames)
              THEN pc' = "done" /\ exitcode' = 0
              ELSE UNCHANGED <<pc, exitcode>>
    /\ UNCHANGED <<args, env, db, saves, out, srcmongo, memory>>

Next ==
    \/ CheckOutputDir
    \/ GetConfig
    \/ Connect
    \/ StoreError
    \/ SaveObject
    \/ ProcessWorkspaces
    \/ NextWorkspace
    \/ ObjQuery
    \/ VersQuery
    \/ ProcessVersion
    \/ ReturnVers
    \/ ReturnObjects
    \/ StripAndFold
    \/ WriteFile

Spec == Init /\ [][Next]_vars

(***************************************************************************)
(* What the claims are stated over.                                        *)
(***************************************************************************)
Users == {"alice", "bob", "carol"}
Visibilities == {"pub", "priv"}
DelStates == {"del", "std"}
TypePrefixes == {P_Genomes, <<"N", "a", "r">>, T_Plain}
Months == {<<"2", "0", "1", "4", "0", "4">>, <<"2", "0", "1", "4", "0", "5">>}

\* the stored documents behind the keys the history variables hold
VDoc(k) == CHOOSE v \in db[COL_VERS] : v.ws = k[1] /\ v.id = k[2] /\ v.ver = k[3]
ODoc(w, i) == CHOOSE o \in db[COL_OBJ] : o.ws = w /\ o.id = i
CountedKeys == BagToSet(counted)

\* the number of accumulations of the versions K, and the sum of their sizes
RECURSIVE TallyCnt(_)
TallyCnt(K) == IF K = {} THEN 0
               ELSE LET k == CHOOSE x \in K : TRUE IN CopiesIn(k, counted) + TallyCnt(K \ {k})
RECURSIVE TallyBytes(_)
TallyBytes(K) == IF K = {} THEN 0
                 ELSE LET k == CHOOSE x \in K : TRUE
                      IN  CopiesIn(k, counted) * VDoc(k).size + TallyBytes(K \ {k})
\* the {cnt, byte} entry those versions make, none if there are none
Tally(K) == IF K = {} THEN <<>> ELSE [cnt |-> TallyCnt(K), byte |-> TallyBytes(K)]

\* the accumulated versions of the workspaces of owner u and visibility p (by
\* the index) whose object document has deletion state dl
CellOf(k) == <<workspaces[k[1]]["owner"], workspaces[k[1]]["pub"],
               IF ODoc(k[1], k[2]).del THEN "del" ELSE "std">>
CountedFor(u, p, dl) == {k \in CountedKeys : CellOf(k) = <<u, p, dl>>}
\* the same for all accumulated versions at once: key -> <<owner, visibility,
\* deletion state>>, and key -> type prefix
Cells == [k \in CountedKeys |-> CellOf(k)]
Prefixes == [k \in CountedKeys |-> split0(VDoc(k).type)]

\* C1: at every point of a run the user totals under (user, visibility,
\* deletion state) are the number and the size sum of exactly the accumulated
\* versions whose workspace has that owner and visibility in the index and
\* whose object document has that deletion flag, and there is no other entry.
C1_UserTotals ==
    /\ DOMAIN d \subseteq Users
    /\ \A cell \in {Cells} : \A u \in Users :
        /\ DOMAIN Get(d, u) \subseteq Visibilities \cup {"types"}
        /\ \A p \in Visibilities :
            /\ DOMAIN Get(Get(d, u), p) \subseteq DelStates
            /\ \A dl \in DelStates :
                Get(Get(Get(d, u), p), dl) = Tally({k \in CountedKeys : cell[k] = <<u, p, dl>>})

\* process_objects has returned totals of one user under both visibilities,
\* one of them of a deleted object saved by somebody else, from several versions
C1_Witness ==
    /\ pc = "strip"
    /\ {"pub", "priv"} \subseteq DOMAIN Get(d, "alice")
    /\ "del" \in DOMAIN d["alice"]["pub"]
    /\ d["alice"]["pub"]["del"]["cnt"] >= 2
    /\ \E k \in CountedFor("alice", "pub", "del") : VDoc(k).savedby # "alice"

\* C8: the user/type totals under (owner, prefix, visibility, deletion state)
\* are the number and size sum of the accumulated versions of that owner,
\* visibility and deletion state whose type prefix (before the first hyphen) is
\* that prefix, if the prefix or '*' is in the include-set, and are absent
\* otherwise; and the store of one public workspace of alice with one live
\* object with one version of size 100 and type KBaseGenomes-Genome yields
\* exactly alice.pub.std = {1, 100} and alice.KBaseGenomes.pub.std = {1, 100}.
C8_TypeTotals ==
    /\ (pc \notin {"start", "config", "exited"} /\ IsSet(sourcecfg["types"])) =>
        /\ DOMAIN types \subseteq Users
        /\ \A cell \in {Cells}, prefix \in {Prefixes} : \A u \in Users :
            /\ DOMAIN Get(types, u) \subseteq TypePrefixes
            /\ \A t \in TypePrefixes, p \in Visibilities, dl \in DelStates :
                Get(Get(Get(Get(types, u), t), p), dl) =
                    Tally({k \in CountedKeys :
                              /\ cell[k] = <<u, p, dl>>
                              /\ prefix[k] = t
                              /\ (t \in sourcecfg["types"].set \/ <<"*">> \in sourcecfg["types"].set)})
    /\ (pc = "strip" /\ db = OneObjectStore) =>
        /\ d = Map1("alice", Map1("pub", Map1("std", [cnt |-> 1, byte |-> 100])))
        /\ types = Map1("alice", Map1(P_Genomes, Map1("pub", Map1("std", [cnt |-> 1, byte |-> 100]))))

\* the run over the one-object store is at the return of process_objects
C8_Witness ==
    /\ pc = "strip"
    /\ db = OneObjectStore
    /\ P_Genomes \in sourcecfg["types"].set
    /\ types["alice"][P_Genomes]["pub"]["std"] = [cnt |-> 1, byte |-> 100]

\* the local year and month of the instant the leading 8 hex digits of a record
\* identifier denote, in the zone utcoff seconds east of UTC (a table of the
\* identifiers the stores hold)
BucketOfPrefix(prefix, utcoff) ==
    CASE prefix = <<"5", "3", "4", "d", "1", "f", "4", "0">> -> <<"2", "0", "1", "4", "0", "4">>
      [] prefix = <<"5", "3", "6", "1", "9", "5", "8", "8">> ->
            IF utcoff = 0 THEN <<"2", "0", "1", "4", "0", "5">> ELSE <<"2", "0", "1", "4", "0", "4">>

\* C9: the month totals under (month, visibility, deletion state) are the
\* number and size sum of the accumulated versions of that visibility and
\* deletion state whose identifier's leading 8 hex digits, read as a Unix time
\* in the process's zone, fall in that month: the bucket is a function of those
\* digits, and the stored save date has no part in it.
C9_MonthFromId ==
    /\ DOMAIN bymonth \subseteq Months
    /\ \A cell \in {Cells} : \A m \in Months :
        /\ DOMAIN Get(bymonth, m) \subseteq Visibilities
        /\ \A p \in Visibilities, dl \in DelStates :
            Get(Get(Get(bymonth, m), p), dl) =
                Tally({k \in CountedKeys :
                          /\ cell[k][2] = p /\ cell[k][3] = dl
                          /\ BucketOfPrefix(SubSeq(VDoc(k)._id, 1, 8), env.utcoff) = m})

\* two accumulated versions share the identifier digits and differ in the month
\* of their save date
C9_Witness ==
    /\ pc = "strip"
    /\ \E a \in CountedKeys, b \in CountedKeys :
        /\ SubSeq(VDoc(a)._id, 1, 8) = SubSeq(VDoc(b)._id, 1, 8)
        /\ VDoc(a).savedate = 1397563200
        /\ VDoc(b).savedate = 1402387200
        /\ Cardinality(DOMAIN bymonth) = 1

\* the sum of f over S
RECURSIVE SumF(_, _)
SumF(f, S) == IF S = {} THEN 0 ELSE LET x == CHOOSE y \in S : TRUE IN f[x] + SumF(f, S \ {x})

\* the counts of all entries of the accumulators: the leaves under every key
\* present, whatever the keys are
Sum2(m) == SumF([x \in DOMAIN m |->
                    SumF([y \in DOMAIN m[x] |-> m[x][y]["cnt"]], DOMAIN m[x])], DOMAIN m)
TotalUser == SumF([u \in DOMAIN d |-> Sum2([p \in (DOMAIN d[u]) \ {"types"} |-> d[u][p]])], DOMAIN d)
TotalMonth == SumF([m \in DOMAIN bymonth |-> Sum2(bymonth[m])], DOMAIN bymonth)
TotalWs == SumF([w \in DOMAIN workspaces |->
                    SumF([dl \in (DOMAIN workspaces[w]) \cap DelStates |-> workspaces[w][dl]["cnt"]],
                         (DOMAIN workspaces[w]) \cap DelStates)],
                DOMAIN workspaces)
TotalType == SumF([u \in DOMAIN types |->
                      SumF([t \in DOMAIN types[u] |-> Sum2(types[u][t])], DOMAIN types[u])],
                  DOMAIN types)

\* C2: with only_latest_ver set, every accumulated version was accumulated
\* once, is the only accumulated version of its object, has the version number
\* its object document records as numver, and is a version the run would also
\* accumulate with the flag unset (fetched, its object in the page); every other
\* version is in no accumulator: the entries of the user, month and workspace
\* totals count just the accumulated versions, the type totals no more, and the
\* listing holds only accumulated versions.
C2_LatestOnly ==
    args.only_latest_ver =>
        /\ \A k \in CountedKeys :
            /\ CopiesIn(k, counted) = 1
            /\ k[3] = ODoc(k[1], k[2]).numver
            /\ k \in fetched /\ <<k[1], k[2]>> \in returned
        /\ \A a \in CountedKeys, b \in CountedKeys : (a[1] = b[1] /\ a[2] = b[2]) => a = b
        /\ TotalUser = Cardinality(CountedKeys)
        /\ TotalMonth = Cardinality(CountedKeys)
        /\ TotalWs = Cardinality(CountedKeys)
        /\ TotalType <= Cardinality(CountedKeys)
        /\ passed \subseteq CountedKeys
        /\ \A key \in DOMAIN objlist :
            \E k \in passed : obj_kbid(VDoc(k)) = key /\ objlist[key]["ver"] = k[3]

\* in latest-only mode an object's newest version is accumulated and an older
\* one that the page query returned is not
C2_Witness ==
    /\ pc = "strip"
    /\ args.only_latest_ver
    /\ \E k \in CountedKeys : k[3] >= 2 /\ <<k[1], k[2], 1>> \in fetched \ CountedKeys

\* C3: at every point, the listing has an entry for exactly the objects of
\* which a version was given to update_object_list, these are the accumulated
\* versions with a listed type prefix, and the version number in an entry is
\* the greatest among the versions of that object given so far.
C3_KeepMax ==
    /\ \A kbid \in {[k \in passed |-> obj_kbid([ws |-> k[1], id |-> k[2]])]} :
        /\ \A k \in passed : kbid[k] \in DOMAIN objlist
        /\ \A key \in DOMAIN objlist :
            \E k \in passed :
                /\ kbid[k] = key
                /\ objlist[key]["ver"] = k[3]
                /\ \A j \in passed : kbid[j] = key => j[3] <= k[3]
    /\ passed # {} => passed = {k \in CountedKeys : split0(VDoc(k).type) \in sourcecfg["list-objects"].set}

\* two versions of one object have been given to update_object_list
C3_Witness ==
    \E a \in passed, b \in passed :
        /\ a[1] = b[1] /\ a[2] = b[2] /\ a[3] < b[3]
        /\ objlist[obj_kbid(VDoc(a))]["ver"] = b[3]
        /\ res = {}

\* the exclusion set of the run
ExcludeSet == IF pc \notin {"start", "config", "exited"} /\ IsSet(sourcecfg["exclude-ws"])
              THEN sourcecfg["exclude-ws"].set ELSE {}

\* C4: for a workspace in the exclusion set no page is ever queried (the job
\* is never at a query of it, and no page, object or version of it is in the
\* histories), none of its versions is accumulated or listed, its index record
\* gets no totals, and the user totals are the tallies of accumulated versions
\* of the other workspaces.
C4_ExcludedUntouched ==
    \A w \in ExcludeSet :
        /\ pc \in {"objquery", "versquery", "versloop"} => ws # w
        /\ \A x \in pages \cup returned \cup fetched \cup CountedKeys \cup passed : x[1] # w
        /\ \A v \in res : v.ws # w
        /\ w \in DOMAIN workspaces => DOMAIN workspaces[w] \cap DelStates = {}
        /\ \A o \in db[COL_OBJ] : o.ws = w => obj_kbid(o) \notin DOMAIN objlist
        /\ \A cell \in {Cells} : \A u \in Users, p \in Visibilities, dl \in DelStates :
            Get(Get(Get(d, u), p), dl) =
                Tally({k \in CountedKeys : cell[k] = <<u, p, dl>> /\ k[1] # w})

\* process_objects returns from a run that excluded workspace 1, which holds
\* versions, and accumulated versions of workspace 2
C4_Witness ==
    /\ pc = "strip"
    /\ ExcludeSet = {1}
    /\ \E v \in db[COL_VERS] : v.ws = 1
    /\ \E k \in CountedKeys : k[1] = 2

AggPcs == {"wsloop", "objquery", "versquery", "versloop"}

\* C5 as claimed: no step of the aggregation pass changes the workspace index.
C5_IndexReadOnly ==
    [][(pc \in AggPcs /\ pc' \in AggPcs \cup {"strip"}) => workspaces' = workspaces]_vars

\* C5 as amended: a step of the aggregation pass adds and removes no workspace
\* record, keeps every field process_workspaces set at its value, and adds to
\* a record only the totals fields 'del' and 'std'.
C5_IndexFieldsKept ==
    [][(pc \in AggPcs /\ pc' \in AggPcs \cup {"strip"}) =>
        /\ DOMAIN workspaces' = DOMAIN workspaces
        /\ \A w \in DOMAIN workspaces :
            /\ DOMAIN workspaces'[w] \ DOMAIN workspaces[w] \subseteq DelStates
            /\ \A f \in DOMAIN workspaces[w] \ DelStates :
                f \in DOMAIN workspaces'[w] /\ workspaces'[w][f] = workspaces[w][f]]_vars

\* during the pass a workspace record holds totals of accumulated versions
C5_Witness ==
    /\ pc \in AggPcs
    /\ \E w \in DOMAIN workspaces :
        /\ "del" \in DOMAIN workspaces[w]
        /\ workspaces[w]["del"]["cnt"] >= 1
        /\ "meta" \in DOMAIN workspaces[w]

\* the pages of a workspace that declares n objects
PagesOf(n) == {<<k * LIMIT, (k + 1) * LIMIT>> : k \in 0..(((n + LIMIT - 1) \div LIMIT) - 1)}

\* every workspace of the store was visited and every page of every workspace
\* not excluded was queried and read to its end
PassComplete ==
    /\ todo = {} /\ res = {}
    /\ DOMAIN visited = {wd.ws : wd \in db[COL_WS]}
    /\ \A w \in DOMAIN visited :
        w \in ExcludeSet \/ \A pg \in PagesOf(visited[w]) : <<w, pg[1], pg[2]>> \in pages

\* C6: when an output file has been written the whole pass is complete, a
\* process that ended otherwise than by reaching the end of main (a store
\* error among the causes) has written no file, and a run that reaches the end
\* of main has written none or all four.
C6_NoPartialOutput ==
    /\ files # <<>> => pc \in {"write", "done"} /\ PassComplete
    /\ pc = "exited" => files = <<>>
    /\ pc = "done" => /\ Len(files) \in {0, 4}
                      /\ PassComplete

\* the four files are written after a pass over a workspace of two pages
C6_Witness ==
    /\ pc = "done"
    /\ [i \in 1..Len(files) |-> files[i].name] =
            <<"user_data.json", "ws_data.json", "ws_object_list.json", "ws_bymonth.json">>
    /\ \E w \in DOMAIN visited : Cardinality(PagesOf(visited[w])) >= 2

\* the config file is read, has the source section, and gives no value for
\* host in it
HostMissing ==
    /\ env.cfg.isfile /\ env.cfg.access
    /\ "SourceMongo" \in DOMAIN env.cfg.co
    /\ \/ "host" \notin DOMAIN env.cfg.co["SourceMongo"]
       \/ env.cfg.co["SourceMongo"]["host"] = Text(<<>>)

\* C7: with no value for host in the source section, the client is never
\* constructed, the run never gets past get_config, and when it has ended its
\* exit status is 1 and, unless the output directory check of line 421 ended
\* it before get_config was called, the message printed names the section
\* SourceMongo and the key host.
C7_MissingHost ==
    HostMissing =>
        /\ ~srcmongo
        /\ pc \in {"start", "config", "exited"}
        /\ pc = "exited" =>
            /\ exitcode = 1
            /\ \/ Truthy(args.output) /\ env.outdir # "ok"
               \/ /\ out[1] = "Missing config value "
                  /\ out[2] = "SourceMongo"
                  /\ out[4] = "host"

\* get_config has ended a run whose config file lacks the host, and also the port
C7_Witness ==
    /\ HostMissing
    /\ "port" \notin DOMAIN env.cfg.co["SourceMongo"]
    /\ pc = "exited"
    /\ out = <<"Missing config value ", "SourceMongo", ".", "host", " from file ", "usage.cfg">>

\* C10: in all-versions mode, the pages queried of a workspace are among the
\* ranges (k*LIMIT, (k+1)*LIMIT], k = 0 .. ceil(n/LIMIT)-1, of its declared
\* count n, and are all of them once the workspace is done (none if it is
\* excluded); every object and version a query returned lies in the page
\* queried; no version is accumulated twice; a version read from the cursor is
\* accumulated once if its object was returned by the page's object query and
\* not at all if not; and when process_objects returns, every stored version
\* with an object id in 1..n is accumulated once and every version beyond the
\* last page not at all.
C10_Paging ==
    ~args.only_latest_ver =>
        /\ \A p \in pages : p[1] \in DOMAIN visited /\ <<p[2], p[3]>> \in PagesOf(visited[p[1]])
        /\ \A w \in DOMAIN visited :
            (w # ws \/ pc \in {"wsloop", "strip", "write", "done"}) =>
                {<<p[2], p[3]>> : p \in {q \in pages : q[1] = w}} =
                    (IF w \in ExcludeSet THEN {} ELSE PagesOf(visited[w]))
        /\ \A x \in returned \cup fetched :
            \E p \in pages : p[1] = x[1] /\ p[2] < x[2] /\ x[2] <= p[3]
        /\ \A k \in CountedKeys : CopiesIn(k, counted) = 1
        /\ \A k \in fetched \ {<<v.ws, v.id, v.ver>> : v \in res} :
            (k \in CountedKeys) = (<<k[1], k[2]>> \in returned)
        /\ CountedKeys \subseteq fetched
        /\ pc = "strip" =>
            \A v \in db[COL_VERS] :
                /\ (v.ws \notin ExcludeSet /\ v.id >= 1 /\ v.id <= visited[v.ws]) =>
                        CopiesIn(<<v.ws, v.id, v.ver>>, counted) = 1
                /\ v.id > ((visited[v.ws] + LIMIT - 1) \div LIMIT) * LIMIT =>
                        CopiesIn(<<v.ws, v.id, v.ver>>, counted) = 0

\* process_objects returns from an all-versions run that read two pages of a
\* workspace, accumulated versions of both, and skipped a version whose object
\* was saved between the page's two queries
C10_Witness ==
    /\ pc = "strip"
    /\ ~args.only_latest_ver
    /\ \E w \in DOMAIN visited :
        /\ Cardinality({p \in pages : p[1] = w}) = 2
        /\ \E a \in CountedKeys, b \in CountedKeys : a[1] = w /\ b[1] = w /\ a[2] <= LIMIT /\ b[2] > LIMIT
        /\ \E k \in fetched : k[1] = w /\ <<k[1], k[2]>> \notin returned /\ k \notin CountedKeys
====
